---- MODULE Spec2Model ----
(***************************************************************************)
(* A model of timekeep.py: the git-log parser (get_commits_for_day), the   *)
(* batched estimation with its fallback (analyze_commits_batch), the       *)
(* per-project analysis (analyze_project) and the day run (main).          *)
(*                                                                         *)
(* Hours are floats in the source.  Here every hour figure is an integer   *)
(* number of hundredths of an hour, so 0.5 h is 50 and the 10 h cap is     *)
(* 1000; a quotient that is not a whole number of hundredths is carried as *)
(* a pair numerator/denominator until it is rounded.                       *)
(***************************************************************************)
EXTENDS Integers, Sequences, FiniteSets, TLC

VARIABLES
    \* get_commits_for_day
    output,            \* what run_git_command returned: [ok, lines]
    line_no,           \* number of lines of output already consumed by the loop
    parser,            \* the loop's locals: commits, seen_hashes, current_commit
    parse_pc,          \* "idle" | "loop" | "returned" | "raised"
    \* analyze_commits_batch called on its own
    batch_commits,     \* the argument
    batch_ret,         \* <<>> before the call, <<outcome>> after it
    \* main and its analyze_project tasks
    projects,          \* the list loaded from projects.json (dicts, mutable)
    config_file,       \* the author_email column of projects.json on disk
    args,              \* [reconfigure_author, timecamp_client]
    task_pc,           \* per task: "pending" | "awaiting" | "done" | "raised"
    task_output,       \* per task: <<>> or <<what its git log query returned>>
    task_commits,      \* per task: the commits local of analyze_project
    task_result,       \* per task: <<>> or <<the dict it returned>>
    capability_calls,  \* per task: generate_content invocations made
    completed,         \* the tasks that have returned, in the order they did
    main_pc,           \* "idle" | "gather" | "report" | "done" | "failed"
    results,           \* what asyncio.gather returned
    loop_i,            \* results already handled by the reporting loop
    total_hours_all,   \* the grand total, in hundredths of an hour
    printed,           \* the names print_project_summary was called with
    timecamp_entries   \* the requests create_time_entry posted

parse_vars == <<output, line_no, parser, parse_pc>>
batch_vars == <<batch_commits, batch_ret>>
day_vars == <<projects, config_file, args, task_pc, task_output, task_commits,
              task_result,
              capability_calls, completed, main_pc, results, loop_i, total_hours_all,
              printed, timecamp_entries>>
vars == <<output, line_no, parser, parse_pc, batch_commits, batch_ret,
          projects, config_file, args, task_pc, task_output, task_commits,
              task_result,
          capability_calls, completed, main_pc, results, loop_i, total_hours_all,
          printed, timecamp_entries>>

(***************************************************************************)
(* Bounds of the model.                                                    *)
(***************************************************************************)
MaxLines == 4
MaxCommits == 2
NProjects == 2

RECURSIVE SeqsUpTo(_, _)
SeqsUpTo(S, n) ==
    IF n = 0 THEN {<<>>}
    ELSE LET shorter == SeqsUpTo(S, n - 1)
         IN shorter \cup {Append(s, x) : s \in {t \in shorter : Len(t) = n - 1}, x \in S}

(***************************************************************************)
(* The git log text.  A line is kept by what the parser reads of it:       *)
(*   boundary: starts with 'COMMIT_BOUNDARY|||'; nparts is the number of   *)
(*             '|||'-separated fields after the prefix, hash is the first  *)
(*             of them and timestamp the fourth (a string);                *)
(*   numstat:  contains a tab; nparts is the number of tab-separated       *)
(*             fields, add and del the first two (strings);                *)
(*   other:    anything else (the blank line git prints between the header *)
(*             and the numstat block).                                     *)
(***************************************************************************)
Boundary(h, n, ts) ==
    [t |-> "boundary", nparts |-> n, hash |-> h, timestamp |-> ts, add |-> "", del |-> ""]
Numstat(n, a, d) ==
    [t |-> "numstat", nparts |-> n, hash |-> "", timestamp |-> "", add |-> a, del |-> d]
OtherLine ==
    [t |-> "other", nparts |-> 1, hash |-> "", timestamp |-> "", add |-> "", del |-> ""]

\* int(s) of the source on the decimal strings the model uses; IsDecimal(s) is
\* whether int(s) returns rather than raising ValueError.
DecimalValue(s) ==
    CASE s = "0" -> 0
      [] s = "1" -> 1
      [] s = "2" -> 2
      [] s = "3" -> 3
      [] s = "5" -> 5
      [] s = "20" -> 20
      [] s = "50" -> 50
      [] s = "200" -> 200
      [] s = "1950" -> 1950
      [] s = "2000" -> 2000
      [] s = "1700000000" -> 1700000000
      [] OTHER -> 0
IsDecimal(s) ==
    s \in {"0", "1", "2", "3", "5", "20", "50", "200", "1950", "2000", "1700000000"}

\* The locals of get_commits_for_day before the loop (lines 278-280).
\* current_commit is <<>> for None and <<dict>> otherwise.  alias is the index
\* in commits of the dict current_commit refers to once that same dict has been
\* appended (Python appends the reference, not a copy), and 0 while the dict
\* is not in the list.
ParserStart ==
    [commits |-> <<>>, seen_hashes |-> {}, current_commit |-> <<>>, alias |-> 0,
     raised |-> FALSE]

\* SavePrevious without the seen_hashes test: every accumulated commit is
\* appended again.
SavePrevious_NoDedup(ps) ==
    IF ps.current_commit # <<>>
    THEN [ps EXCEPT !.seen_hashes = @ \cup {ps.current_commit[1].hash},
                    !.commits = Append(@, ps.current_commit[1]),
                    !.alias = Len(ps.commits) + 1]
    ELSE ps

\* Lines 285-287: append the accumulated commit unless its hash was seen.
SavePrevious(ps) ==
    IF ps.current_commit # <<>> /\ ps.current_commit[1].hash \notin ps.seen_hashes
    THEN [ps EXCEPT !.seen_hashes = @ \cup {ps.current_commit[1].hash},
                    !.commits = Append(@, ps.current_commit[1]),
                    !.alias = Len(ps.commits) + 1]
    ELSE ps

\* Lines 292-301: the dict built from a five-field boundary line.
NewCommit(line) ==
    [hash |-> line.hash, timestamp |-> DecimalValue(line.timestamp),
     files |-> 0, additions |-> 0, deletions |-> 0]

\* Lines 306-314 on one dict: files always grows; the two sums grow only when
\* both fields convert (a ValueError from either int() skips both additions).
AddNumstat(c, line) ==
    LET addOk == line.add = "-" \/ IsDecimal(line.add)
        delOk == line.del = "-" \/ IsDecimal(line.del)
        add == IF line.add # "-" THEN DecimalValue(line.add) ELSE 0
        delete == IF line.del # "-" THEN DecimalValue(line.del) ELSE 0
    IN IF addOk /\ delOk
       THEN [c EXCEPT !.files = @ + 1, !.additions = @ + add, !.deletions = @ + delete]
       ELSE [c EXCEPT !.files = @ + 1]

\* Lines 302-314: the update goes to the dict current_commit refers to, which
\* is also an element of commits when alias is not 0.
CountNumstat(ps, line) ==
    LET c == AddNumstat(ps.current_commit[1], line)
    IN IF ps.alias = 0
       THEN [ps EXCEPT !.current_commit = <<c>>]
       ELSE [ps EXCEPT !.current_commit = <<c>>, !.commits[ps.alias] = c]

\* Lines 289-301: a five-field line starts a new dict (int() of the timestamp
\* raising ValueError leaves the function); any other count leaves
\* current_commit as it is.
ParseBoundary(ps, line) ==
    IF line.nparts = 5
    THEN IF IsDecimal(line.timestamp)
         THEN [ps EXCEPT !.current_commit = <<NewCommit(line)>>, !.alias = 0]
         ELSE [ps EXCEPT !.raised = TRUE]
    ELSE ps

\* One iteration of the loop at lines 282-314.
ParseLine(ps, line) ==
    IF line.t = "boundary"
    THEN ParseBoundary(SavePrevious(ps), line)
    ELSE IF ps.current_commit # <<>> /\ line.t = "numstat"
         THEN IF line.nparts >= 3 THEN CountNumstat(ps, line) ELSE ps
         ELSE ps

\* LastCommit forgotten: the loop's last accumulated commit is not appended.
LastCommit_Forgotten(ps) == ps

\* Lines 316-318: the last commit is appended unless its hash was seen.
LastCommit(ps) ==
    IF ps.current_commit # <<>> /\ ps.current_commit[1].hash \notin ps.seen_hashes
    THEN [ps EXCEPT !.commits = Append(@, ps.current_commit[1]),
                    !.alias = Len(ps.commits) + 1]
    ELSE ps

RECURSIVE ParseFrom(_, _, _)
ParseFrom(ps, lines, k) ==
    IF ps.raised \/ k > Len(lines) THEN ps
    ELSE ParseFrom(ParseLine(ps, lines[k]), lines, k + 1)

\* get_commits_for_day letting a failed git query raise instead of treating
\* None as an empty log.
get_commits_for_day_FailureRaises(out) ==
    IF ~out.ok
    THEN [raised |-> TRUE, commits |-> <<>>]
    ELSE IF out.lines = <<>>
    THEN [raised |-> FALSE, commits |-> <<>>]
    ELSE LET ps == ParseFrom(ParserStart, out.lines, 1)
         IN IF ps.raised THEN [raised |-> TRUE, commits |-> <<>>]
            ELSE [raised |-> FALSE, commits |-> LastCommit(ps).commits]

\* get_commits_for_day from the text run_git_command returned (lines 273-320):
\* [raised, commits].  None and the empty text both give the empty list.
get_commits_for_day(out) ==
    IF ~out.ok \/ out.lines = <<>>
    THEN [raised |-> FALSE, commits |-> <<>>]
    ELSE LET ps == ParseFrom(ParserStart, out.lines, 1)
         IN IF ps.raised THEN [raised |-> TRUE, commits |-> <<>>]
            ELSE [raised |-> FALSE, commits |-> LastCommit(ps).commits]

(***************************************************************************)
(* The parser run line by line on every bounded log text.                  *)
(***************************************************************************)
Hashes == {"h1", "h2"}

LogLines ==
    {Boundary(h, 5, "1700000000") : h \in Hashes}
        \cup {Boundary("h1", 4, "1700000000"), Boundary("h2", 6, "1700000000"),
              Boundary("h2", 5, "soon")}
        \cup {Numstat(3, "3", "1"), Numstat(3, "5", "2"), Numstat(3, "-", "-"),
              Numstat(3, "3", "x")}
        \cup {OtherLine}

LogTexts == SeqsUpTo(LogLines, MaxLines)

DayIdle ==
    /\ projects = <<>>
    /\ config_file = <<>>
    /\ args = [reconfigure_author |-> FALSE, timecamp_client |-> FALSE]
    /\ task_pc = <<>>
    /\ task_output = <<>>
    /\ task_commits = <<>>
    /\ task_result = <<>>
    /\ capability_calls = <<>>
    /\ completed = <<>>
    /\ main_pc = "idle"
    /\ results = <<>>
    /\ loop_i = 0
    /\ total_hours_all = 0
    /\ printed = <<>>
    /\ timecamp_entries = <<>>

BatchIdle ==
    /\ batch_commits = <<>>
    /\ batch_ret = <<>>

ParseIdle ==
    /\ output = [ok |-> FALSE, lines |-> <<>>]
    /\ line_no = 0
    /\ parser = ParserStart
    /\ parse_pc = "idle"

ParseInit ==
    /\ output \in {[ok |-> TRUE, lines |-> l] : l \in LogTexts}
                    \cup {[ok |-> FALSE, lines |-> <<>>]}
    /\ line_no = 0
    /\ parser = ParserStart
    /\ parse_pc = "loop"
    /\ BatchIdle
    /\ DayIdle

\* Lines 275-276: nothing to parse.
ParseNothing ==
    /\ parse_pc = "loop"
    /\ line_no = 0
    /\ ~output.ok \/ output.lines = <<>>
    /\ parse_pc' = "returned"
    /\ UNCHANGED <<output, line_no, parser>>
    /\ UNCHANGED batch_vars
    /\ UNCHANGED day_vars

\* One iteration of the loop.
ParseStep ==
    /\ parse_pc = "loop"
    /\ output.ok
    /\ line_no < Len(output.lines)
    /\ LET ps == ParseLine(parser, output.lines[line_no + 1])
       IN /\ parser' = ps
          /\ parse_pc' = IF ps.raised THEN "raised" ELSE "loop"
    /\ line_no' = line_no + 1
    /\ UNCHANGED output
    /\ UNCHANGED batch_vars
    /\ UNCHANGED day_vars

\* The end of the text: lines 316-320.
ParseReturn ==
    /\ parse_pc = "loop"
    /\ output.ok
    /\ output.lines # <<>>
    /\ line_no = Len(output.lines)
    /\ parser' = LastCommit(parser)
    /\ parse_pc' = "returned"
    /\ UNCHANGED <<output, line_no>>
    /\ UNCHANGED batch_vars
    /\ UNCHANGED day_vars

ParseNext == ParseNothing \/ ParseStep \/ ParseReturn

SpecParse == ParseInit /\ [][ParseNext]_vars

(***************************************************************************)
(* analyze_commits_batch.                                                  *)
(*                                                                         *)
(* A float of the response is [kind, v]: a number of v hundredths, or the  *)
(* NaN / Infinity that the schema's float also accepts.  An exception is   *)
(* [type, name, msg]: the except clause that catches it, type(e).__name__  *)
(* and str(e).                                                             *)
(***************************************************************************)
FALLBACK_BASE_HOURS == 50
FALLBACK_LINES_PER_HOUR == 100
FALLBACK_MAX_HOURS == 4000
\* Line 381: every estimate is divided by 4 and the total capped at 10 hours.
EstimateDivisor == 4
DailyCap == 1000

Num(v) == [kind |-> "num", v |-> v]
NaN == [kind |-> "nan", v |-> 0]
Infinity == [kind |-> "inf", v |-> 0]

Min2(a, b) == IF a <= b THEN a ELSE b

\* Python's round() of the quotient a / b (b > 0): to the nearest integer,
\* a tie going to the even one.
RoundHalfEven(a, b) ==
    LET q == a \div b
        r == a % b
    IN IF 2 * r < b THEN q
       ELSE IF 2 * r > b THEN q + 1
       ELSE IF q % 2 = 0 THEN q ELSE q + 1

\* round_to_half_hour of num / den hundredths of an hour:
\* round(hours * 2) / 2, back in hundredths.
round_to_half_hour(num, den) == (RoundHalfEven(num * 2, den * 100) * 100) \div 2

RECURSIVE total_lines(_)
total_lines(commits) ==
    IF commits = <<>> THEN 0
    ELSE commits[1].additions + commits[1].deletions + total_lines(Tail(commits))

NoException == [type |-> "", name |-> "", msg |-> ""]
NoResponse == [total_hours |-> Num(0), summary |-> "", major_tasks |-> <<>>]

\* What the awaited generate_content call does: raises, or returns a text that
\* model_validate_json accepts (response) or rejects (exc, a ValidationError).
Raises(e) == [kind |-> "raise", exc |-> e, response |-> NoResponse]
ReturnsInvalid(e) == [kind |-> "invalid", exc |-> e, response |-> NoResponse]
Returns(r) == [kind |-> "valid", exc |-> NoException, response |-> r]

\* Lines 381-383 raise when round() is given NaN (ValueError) or an infinity
\* (OverflowError); the total is rounded first, then each task in order.
NonFinite(r) ==
    LET fs == <<r.total_hours>> \o [k \in 1..Len(r.major_tasks) |-> r.major_tasks[k].hours]
        bad == {k \in 1..Len(fs) : fs[k].kind # "num"}
    IN IF bad = {} THEN <<>> ELSE <<fs[CHOOSE k \in bad : \A j \in bad : k <= j]>>

RoundError(f) ==
    IF f.kind = "nan"
    THEN [type |-> "Exception", name |-> "ValueError",
          msg |-> "cannot convert float NaN to integer"]
    ELSE [type |-> "Exception", name |-> "OverflowError",
          msg |-> "cannot convert float infinity to integer"]

\* The exception raised inside the try block (lines 363-385), <<>> if none.
RaisedInTry(outcome) ==
    IF outcome.kind # "valid" THEN <<outcome.exc>>
    ELSE IF NonFinite(outcome.response) # <<>>
         THEN <<RoundError(NonFinite(outcome.response)[1])>>
         ELSE <<>>

Summary(text, n, lines) == [text |-> text, commits |-> n, lines |-> lines]

\* Lines 332-336.
NoCommitsResult ==
    [total_hours |-> 0, summary |-> Summary("No commits to analyze", 0, 0),
     major_tasks |-> <<>>, error |-> <<>>]

\* Lines 377-385: the validated response, scaled, rounded and capped.
OnResponse(r) ==
    [total_hours |-> Min2(round_to_half_hour(r.total_hours.v, EstimateDivisor), DailyCap),
     summary |-> Summary(r.summary, 0, 0),
     major_tasks |-> [k \in 1..Len(r.major_tasks) |->
                         [task |-> r.major_tasks[k].task,
                          hours |-> round_to_half_hour(r.major_tasks[k].hours.v,
                                                       EstimateDivisor)]],
     error |-> <<>>]

\* Lines 387-398.
OnJSONDecodeError(commits, e) ==
    LET lines == total_lines(commits)
        hours == Min2(round_to_half_hour(
                          FALLBACK_BASE_HOURS * FALLBACK_LINES_PER_HOUR + lines * 100,
                          FALLBACK_LINES_PER_HOUR * 4), 1000)
    IN [total_hours |-> hours,
        summary |-> Summary("AI analysis failed (JSONDecodeError). Fallback",
                            Len(commits), lines),
        major_tasks |-> <<>>,
        error |-> <<"JSON parsing error: " \o e.msg>>]

\* Lines 399-410.
OnValidationError(commits, e) ==
    LET lines == total_lines(commits)
        hours == Min2(round_to_half_hour(
                          FALLBACK_BASE_HOURS * FALLBACK_LINES_PER_HOUR + lines * 100,
                          FALLBACK_LINES_PER_HOUR * 4), 1000)
    IN [total_hours |-> hours,
        summary |-> Summary("AI analysis failed (ValidationError). Fallback",
                            Len(commits), lines),
        major_tasks |-> <<>>,
        error |-> <<"Response validation error: " \o e.msg>>]

\* OnGoogleAPIError with the division by 4 left out of the fallback.
OnGoogleAPIError_Unscaled(commits, e) ==
    LET lines == total_lines(commits)
        hours == Min2(round_to_half_hour(
                          FALLBACK_BASE_HOURS * FALLBACK_LINES_PER_HOUR + lines * 100,
                          FALLBACK_LINES_PER_HOUR), 1000)
    IN [total_hours |-> hours,
        summary |-> Summary("AI analysis failed (" \o e.name \o "). Fallback",
                            Len(commits), lines),
        major_tasks |-> <<>>,
        error |-> <<e.msg>>]

\* Lines 411-422.
OnGoogleAPIError(commits, e) ==
    LET lines == total_lines(commits)
        hours == Min2(round_to_half_hour(
                          FALLBACK_BASE_HOURS * FALLBACK_LINES_PER_HOUR + lines * 100,
                          FALLBACK_LINES_PER_HOUR * 4), 1000)
    IN [total_hours |-> hours,
        summary |-> Summary("AI analysis failed (" \o e.name \o "). Fallback",
                            Len(commits), lines),
        major_tasks |-> <<>>,
        error |-> <<e.msg>>]

\* Lines 423-434.
OnException(commits, e) ==
    LET lines == total_lines(commits)
        hours == Min2(round_to_half_hour(
                          FALLBACK_BASE_HOURS * FALLBACK_LINES_PER_HOUR + lines * 100,
                          FALLBACK_LINES_PER_HOUR * 4), 1000)
    IN [total_hours |-> hours,
        summary |-> Summary("AI analysis failed (Unexpected Error). Fallback",
                            Len(commits), lines),
        major_tasks |-> <<>>,
        error |-> <<e.msg>>]

\* The except clauses in their order.
OnRaised(commits, e) ==
    CASE e.type = "JSONDecodeError" -> OnJSONDecodeError(commits, e)
      [] e.type = "ValidationError" -> OnValidationError(commits, e)
      [] e.type = "GoogleAPIError" -> OnGoogleAPIError(commits, e)
      [] OTHER -> OnException(commits, e)

\* genai.Client(...) at line 339 stands before the try block: an exception
\* from it leaves the function.
ClientSetupRaises(env) == ~env.client_ok

\* analyze_commits_batch invoking the capability a second time after a failure
\* before it falls back.
analyze_commits_batch_Retry(commits, env) ==
    IF commits = <<>>
    THEN [raised |-> FALSE, calls |-> 0, result |-> <<NoCommitsResult>>]
    ELSE IF ClientSetupRaises(env)
         THEN [raised |-> TRUE, calls |-> 0, result |-> <<>>]
         ELSE LET e == RaisedInTry(env.outcome)
              IN [raised |-> FALSE, calls |-> IF e = <<>> THEN 1 ELSE 2,
                  result |-> IF e = <<>> THEN <<OnResponse(env.outcome.response)>>
                             ELSE <<OnRaised(commits, e[1])>>]

\* analyze_commits_batch(commits) in the environment env = [client_ok, outcome]:
\* [raised, calls, result], calls the generate_content invocations made and
\* result <<the dict returned>>, or <<>> when an exception left the function.
analyze_commits_batch(commits, env) ==
    IF commits = <<>>
    THEN [raised |-> FALSE, calls |-> 0, result |-> <<NoCommitsResult>>]
    ELSE IF ClientSetupRaises(env)
         THEN [raised |-> TRUE, calls |-> 0, result |-> <<>>]
         ELSE LET e == RaisedInTry(env.outcome)
              IN [raised |-> FALSE, calls |-> 1,
                  result |-> IF e = <<>> THEN <<OnResponse(env.outcome.response)>>
                             ELSE <<OnRaised(commits, e[1])>>]

(***************************************************************************)
(* analyze_commits_batch applied to every bounded batch and every outcome  *)
(* of the capability call.                                                 *)
(***************************************************************************)
BatchStats == {<<0, 0>>, <<50, 0>>, <<200, 50>>, <<2000, 1950>>, <<2000, 2000>>}
BatchCommit(st) ==
    [hash |-> "h1", timestamp |-> 1700000000, files |-> 1,
     additions |-> st[1], deletions |-> st[2]]
BatchLists == SeqsUpTo({BatchCommit(st) : st \in BatchStats}, MaxCommits)

Messages == {"", "deadline exceeded"}
Exceptions ==
    {[type |-> "JSONDecodeError", name |-> "JSONDecodeError",
      msg |-> "Expecting value: line 1 column 1 (char 0)"]}
        \cup {[type |-> "GoogleAPIError", name |-> "ServiceUnavailable", msg |-> m] :
                 m \in Messages}
        \cup {[type |-> "Exception", name |-> "ReadTimeout", msg |-> m] : m \in Messages}
InvalidText ==
    [type |-> "ValidationError", name |-> "ValidationError",
     msg |-> "1 validation error for CommitAnalysis"]

ResponseHours ==
    {Num(v) : v \in {-800, -100, 0, 100, 300, 500, 900, 3900, 5000}} \cup {NaN, Infinity}
ResponseTasks ==
    {<<>>, <<[task |-> "refactor", hours |-> Num(500)]>>,
     <<[task |-> "refactor", hours |-> NaN]>>}
Responses ==
    {[total_hours |-> h, summary |-> "Refactored the parser", major_tasks |-> ts] :
        h \in ResponseHours, ts \in ResponseTasks}

Outcomes ==
    {Raises(e) : e \in Exceptions} \cup {ReturnsInvalid(InvalidText)}
        \cup {Returns(r) : r \in Responses}
BatchEnvs ==
    {[client_ok |-> TRUE, outcome |-> o] : o \in Outcomes}
        \cup {[client_ok |-> FALSE, outcome |-> ReturnsInvalid(InvalidText)]}

BatchInit ==
    /\ batch_commits \in BatchLists
    /\ batch_ret = <<>>
    /\ ParseIdle
    /\ DayIdle

BatchCall ==
    /\ batch_ret = <<>>
    /\ \E env \in BatchEnvs :
          batch_ret' = <<[env |-> env, ret |-> analyze_commits_batch(batch_commits, env)]>>
    /\ UNCHANGED batch_commits
    /\ UNCHANGED parse_vars
    /\ UNCHANGED day_vars

BatchNext == BatchCall

SpecBatch == BatchInit /\ [][BatchNext]_vars

(***************************************************************************)
(* main and analyze_project.                                               *)
(*                                                                         *)
(* A project dict is [name, path, author_email, timecamp_enabled,          *)
(* timecamp_task_id]: author_email is <<>> when the key is absent and      *)
(* <<string>> otherwise; timecamp_task_id 0 stands for a missing key.      *)
(* A result dict is [name, path, commits, total_hours, summary,            *)
(* major_tasks, error]: error is <<>> for a missing key or None.  The keys *)
(* an early return leaves out (path, commits, summary, major_tasks) are    *)
(* read by no caller for such a result and are kept at an empty value.     *)
(***************************************************************************)
Projects == 1..NProjects

ProjectName(i) == <<"alpha", "beta", "gamma", "delta">>[i]
ProjectPath(i) == "/repos/" \o ProjectName(i)

ProjectConfigs(i) ==
    {[name |-> ProjectName(i), path |-> ProjectPath(i),
      author_email |-> <<"dev@example.com">>,
      timecamp_enabled |-> TRUE, timecamp_task_id |-> 100 + i],
     [name |-> ProjectName(i), path |-> ProjectPath(i),
      author_email |-> <<>>,
      timecamp_enabled |-> TRUE, timecamp_task_id |-> 0],
     [name |-> ProjectName(i), path |-> ProjectPath(i),
      author_email |-> <<"">>,
      timecamp_enabled |-> FALSE, timecamp_task_id |-> 100 + i]}

\* Python's truth value of result.get('error') and of an author email.
Truthy(e) == e # <<>> /\ e[1] # ""

\* save_projects_config (lines 192-214): the author_email column as written.
save_projects_config(all_projects) ==
    [i \in 1..Len(all_projects) |-> all_projects[i].author_email]

\* The address the user enters at line 242 (it holds an '@').
TypedEmail == "dev@example.com"

\* confirm_and_save_author asking again although an author_email is configured
\* and no reconfiguration is forced.
confirm_and_save_author_AlwaysAsk(project, detected_email, force_reconfigure, answer) ==
    IF answer = "eof"
    THEN [raised |-> TRUE, email |-> <<>>, project |-> project, saved |-> FALSE]
    ELSE IF detected_email # <<>> /\ answer = "y"
    THEN [raised |-> FALSE, email |-> detected_email,
          project |-> [project EXCEPT !.author_email = detected_email],
          saved |-> TRUE]
    ELSE [raised |-> FALSE, email |-> <<"dev@example.com">>,
          project |-> [project EXCEPT !.author_email = <<"dev@example.com">>],
          saved |-> TRUE]

\* confirm_and_save_author (lines 217-251) with the detected email and the
\* user's answers: [raised, email, project], project the dict after the call
\* and saved whether save_projects_config ran.  answer is "y" (accept the
\* detected email), "typed" (decline or nothing detected, then enter an
\* address), or "eof" (input() raises EOFError on a closed stdin).
confirm_and_save_author(project, detected_email, force_reconfigure, answer) ==
    IF project.author_email # <<>> /\ ~force_reconfigure
    THEN [raised |-> FALSE, email |-> project.author_email, project |-> project,
          saved |-> FALSE]
    ELSE IF answer = "eof"
    THEN [raised |-> TRUE, email |-> <<>>, project |-> project, saved |-> FALSE]
    ELSE IF detected_email # <<>> /\ answer = "y"
    THEN [raised |-> FALSE, email |-> detected_email,
          project |-> [project EXCEPT !.author_email = detected_email],
          saved |-> TRUE]
    ELSE [raised |-> FALSE, email |-> <<TypedEmail>>,
          project |-> [project EXCEPT !.author_email = <<TypedEmail>>],
          saved |-> TRUE]

\* Lines 444-456 and 462-467: the results of the failed validations.
ErrorResult(project, msg) ==
    [name |-> project.name, path |-> "", commits |-> 0, total_hours |-> 0,
     summary |-> Summary("", 0, 0), major_tasks |-> <<>>, error |-> <<msg>>]

\* Lines 472-479.
NoCommitsByResult(project, author_email) ==
    [name |-> project.name, path |-> "", commits |-> 0, total_hours |-> 0,
     summary |-> Summary("No commits by " \o author_email[1] \o " on this day", 0, 0),
     major_tasks |-> <<>>, error |-> <<>>]

\* Lines 484-492: the analysis merged with the project's identity.
AnalysisResult(project, commits, analysis) ==
    [name |-> project.name, path |-> project.path, commits |-> Len(commits),
     total_hours |-> analysis.total_hours, summary |-> analysis.summary,
     major_tasks |-> analysis.major_tasks, error |-> analysis.error]

\* What the environment answers a task on its way to its first await:
\* [path, detected_email, answer, git, client_ok].
DayOutputs ==
    {[ok |-> FALSE, lines |-> <<>>],
     [ok |-> TRUE, lines |-> <<>>],
     [ok |-> TRUE,
      lines |-> <<Boundary("h1", 5, "1700000000"), OtherLine, Numstat(3, "200", "0"),
                  Boundary("h2", 5, "1700000000"), Numstat(3, "0", "50")>>]}
\* An answer nobody reads is kept at one value: nothing after a failed path
\* check, no git query or client after a closed stdin, no client for a day
\* without commits.
TaskEnvs ==
    {e \in [path : {"missing", "not_git", "repo"},
            detected_email : {<<>>, <<"dev@example.com">>},
            answer : {"y", "typed", "eof"},
            git : DayOutputs,
            client_ok : BOOLEAN] :
        /\ e.path # "repo" => e.detected_email = <<>> /\ e.answer = "y"
        /\ (e.path # "repo" \/ e.answer = "eof") =>
               e.git = [ok |-> FALSE, lines |-> <<>>]
        /\ e.git.lines = <<>> => e.client_ok}

DayOutcomes ==
    {Returns([total_hours |-> Num(900), summary |-> "Refactored the parser",
              major_tasks |-> <<[task |-> "refactor", hours |-> Num(500)]>>]),
     Returns([total_hours |-> Num(-800), summary |-> "Refactored the parser",
              major_tasks |-> <<>>]),
     ReturnsInvalid(InvalidText),
     Raises([type |-> "Exception", name |-> "ReadTimeout", msg |-> ""])}

\* analyze_project (lines 437-482) from its start to its first await or its
\* return: [pc, project, saved, output, commits, result, calls].  output is
\* <<>> until line 470 has run the git log query.
analyze_project_start(project, force_reconfigure, env) ==
    LET stop(pc, proj, saved, out, res) ==
            [pc |-> pc, project |-> proj, saved |-> saved, output |-> out,
             commits |-> <<>>, result |-> res, calls |-> 0]
    IN IF env.path = "missing"
       THEN stop("done", project, FALSE, <<>>,
                 <<ErrorResult(project, "Path does not exist: " \o project.path)>>)
       ELSE IF env.path = "not_git"
       THEN stop("done", project, FALSE, <<>>,
                 <<ErrorResult(project, "Not a git repository: " \o project.path)>>)
       ELSE LET author == confirm_and_save_author(project, env.detected_email,
                                                  force_reconfigure, env.answer)
            IN IF author.raised
               THEN stop("raised", author.project, author.saved, <<>>, <<>>)
               ELSE IF ~Truthy(author.email)
               THEN stop("done", author.project, author.saved, <<>>,
                         <<ErrorResult(project, "No author email configured")>>)
               ELSE LET parsed == get_commits_for_day(env.git)
                        batch == analyze_commits_batch(
                                     parsed.commits,
                                     [client_ok |-> env.client_ok,
                                      outcome |-> ReturnsInvalid(InvalidText)])
                    IN IF parsed.raised
                       THEN stop("raised", author.project, author.saved, <<env.git>>, <<>>)
                       ELSE IF parsed.commits = <<>>
                       THEN stop("done", author.project, author.saved, <<env.git>>,
                                 <<NoCommitsByResult(project, author.email)>>)
                       ELSE IF batch.raised
                       THEN [stop("raised", author.project, author.saved, <<env.git>>, <<>>)
                                EXCEPT !.commits = parsed.commits]
                       ELSE [pc |-> "awaiting", project |-> author.project,
                             saved |-> author.saved, output |-> <<env.git>>,
                             commits |-> parsed.commits,
                             result |-> <<>>, calls |-> 1]

\* gather returning the results in the order the tasks completed.
gather_as_completed(task_results) ==
    [k \in 1..Len(completed) |-> task_results[completed[k]][1]]

\* asyncio.gather (line 659): the tasks' results in the order of the tasks.
gather(task_results) == [i \in 1..Len(task_results) |-> task_results[i][1]]

\* Line 672: the project a result is submitted against.
ProjectOfResult(i) == projects[i]

\* create_time_entry (lines 76-86): the payload posted; hours to seconds.
create_time_entry(task_id, duration, note) ==
    [task_id |-> task_id, duration |-> RoundHalfEven(duration * 3600, 100), note |-> note]

\* submit_to_timecamp (lines 523-555): <<the payload posted>>, or <<>> when
\* the function returns before create_time_entry.
submit_to_timecamp(project, result) ==
    IF ~project.timecamp_enabled THEN <<>>
    ELSE IF project.timecamp_task_id = 0 THEN <<>>
    ELSE IF Truthy(result.error) \/ result.total_hours = 0 THEN <<>>
    ELSE <<create_time_entry(project.timecamp_task_id, result.total_hours,
                             "Timekeep: " \o result.summary.text)>>

DayInit ==
    /\ projects \in {ps \in [Projects -> UNION {ProjectConfigs(i) : i \in Projects}] :
                        \A i \in Projects : ps[i] \in ProjectConfigs(i)}
    /\ config_file = save_projects_config(projects)
    /\ args \in [reconfigure_author : BOOLEAN, timecamp_client : BOOLEAN]
    /\ task_pc = [i \in Projects |-> "pending"]
    /\ task_output = [i \in Projects |-> <<>>]
    /\ task_commits = [i \in Projects |-> <<>>]
    /\ task_result = [i \in Projects |-> <<>>]
    /\ capability_calls = [i \in Projects |-> 0]
    /\ completed = <<>>
    /\ main_pc = "gather"
    /\ results = <<>>
    /\ loop_i = 0
    /\ total_hours_all = 0
    /\ printed = <<>>
    /\ timecamp_entries = <<>>
    /\ ParseIdle
    /\ BatchIdle

\* Task i runs from its start to its first await, its return or its exception.
\* The event loop starts the tasks in the order gather was given them.
StartTask(i) ==
    /\ main_pc = "gather"
    /\ task_pc[i] = "pending"
    /\ \A j \in Projects : j < i => task_pc[j] # "pending"
    /\ \E env \in TaskEnvs :
          LET st == analyze_project_start(projects[i], args.reconfigure_author, env)
              after == [projects EXCEPT ![i] = st.project]
          IN /\ projects' = after
             /\ config_file' = IF st.saved THEN save_projects_config(after)
                               ELSE config_file
             /\ task_pc' = [task_pc EXCEPT ![i] = st.pc]
             /\ task_output' = [task_output EXCEPT ![i] = st.output]
             /\ task_commits' = [task_commits EXCEPT ![i] = st.commits]
             /\ task_result' = [task_result EXCEPT ![i] = st.result]
             /\ capability_calls' = [capability_calls EXCEPT ![i] = @ + st.calls]
             /\ completed' = IF st.pc = "done" THEN Append(completed, i) ELSE completed
    /\ UNCHANGED <<args, main_pc, results, loop_i, total_hours_all, printed,
                   timecamp_entries>>
    /\ UNCHANGED parse_vars
    /\ UNCHANGED batch_vars

\* The awaited generate_content of task i completes; analyze_commits_batch
\* and analyze_project run to their return (lines 365-434, 482-492).
\* capability_calls becomes the invocations the function made in all.
CapabilityReturns(i) ==
    /\ main_pc = "gather"
    /\ task_pc[i] = "awaiting"
    /\ \E o \in DayOutcomes :
          LET ret == analyze_commits_batch(task_commits[i],
                                           [client_ok |-> TRUE, outcome |-> o])
          IN /\ task_result' = [task_result EXCEPT ![i] =
                    <<AnalysisResult(projects[i], task_commits[i], ret.result[1])>>]
             /\ task_pc' = [task_pc EXCEPT ![i] = "done"]
             /\ capability_calls' = [capability_calls EXCEPT ![i] = ret.calls]
    /\ completed' = Append(completed, i)
    /\ UNCHANGED <<projects, config_file, args, task_output, task_commits,
                   main_pc, results, loop_i, total_hours_all, printed,
                   timecamp_entries>>
    /\ UNCHANGED parse_vars
    /\ UNCHANGED batch_vars

\* Line 659 returns once every task has returned.
GatherReturns ==
    /\ main_pc = "gather"
    /\ \A i \in Projects : task_pc[i] = "done"
    /\ results' = gather(task_result)
    /\ main_pc' = "report"
    /\ UNCHANGED <<projects, config_file, args, task_pc, task_output, task_commits,
              task_result,
                   capability_calls, completed, loop_i, total_hours_all, printed,
                   timecamp_entries>>
    /\ UNCHANGED parse_vars
    /\ UNCHANGED batch_vars

\* Line 659 re-raises the first exception of a task (gather is called without
\* return_exceptions); lines 680-683 print it and main ends.  Every task has
\* had its first step by then.
GatherRaises ==
    /\ main_pc = "gather"
    /\ \E i \in Projects : task_pc[i] = "raised"
    /\ \A i \in Projects : task_pc[i] # "pending"
    /\ main_pc' = "failed"
    /\ UNCHANGED <<projects, config_file, args, task_pc, task_output, task_commits,
              task_result,
                   capability_calls, completed, results, loop_i, total_hours_all, printed,
                   timecamp_entries>>
    /\ UNCHANGED parse_vars
    /\ UNCHANGED batch_vars

\* One iteration of the loop at lines 665-672.
ReportResult ==
    /\ main_pc = "report"
    /\ loop_i < Len(results)
    /\ LET i == loop_i + 1
           result == results[i]
           posted == IF ~Truthy(result.error) /\ args.timecamp_client
                     THEN submit_to_timecamp(ProjectOfResult(i), result)
                     ELSE <<>>
       IN /\ printed' = Append(printed, result.name)
          /\ total_hours_all' = IF ~Truthy(result.error)
                                THEN total_hours_all + result.total_hours
                                ELSE total_hours_all
          /\ timecamp_entries' = timecamp_entries \o posted
          /\ loop_i' = i
    /\ UNCHANGED <<projects, config_file, args, task_pc, task_output, task_commits,
              task_result,
                   capability_calls, completed, main_pc, results>>
    /\ UNCHANGED parse_vars
    /\ UNCHANGED batch_vars

\* Lines 674-675: the grand total is printed.
PrintTotal ==
    /\ main_pc = "report"
    /\ loop_i = Len(results)
    /\ main_pc' = "done"
    /\ UNCHANGED <<projects, config_file, args, task_pc, task_output, task_commits,
              task_result,
                   capability_calls, completed, results, loop_i, total_hours_all, printed,
                   timecamp_entries>>
    /\ UNCHANGED parse_vars
    /\ UNCHANGED batch_vars

Next ==
    \/ \E i \in Projects : StartTask(i)
    \/ \E i \in Projects : CapabilityReturns(i)
    \/ GatherReturns
    \/ GatherRaises
    \/ ReportResult
    \/ PrintTotal

Init == DayInit

Spec == Init /\ [][Next]_vars

(***************************************************************************)
(* What the log text says, read off the text itself (not off the parser's  *)
(* locals): the reference the parser claims are stated against.            *)
(***************************************************************************)
Min(S) == CHOOSE x \in S : \A y \in S : x <= y

\* A boundary line the parser turns into a record: exactly five fields.
IsRecordLine(l) == l.t = "boundary" /\ l.nparts = 5
\* A boundary line with any other field count.
IsMalformedBoundary(l) == l.t = "boundary" /\ l.nparts # 5
\* A numstat line: a tab-separated triple.
IsStatLine(l) == l.t = "numstat" /\ l.nparts >= 3
StatValue(s) == IF s = "-" THEN 0 ELSE DecimalValue(s)
StatConverts(l) ==
    /\ l.add = "-" \/ IsDecimal(l.add)
    /\ l.del = "-" \/ IsDecimal(l.del)

\* The first line after position p that starts with the boundary prefix, and
\* the first one after p that starts a record; Len + 1 when there is none.
NextBoundaryLine(lines, p) ==
    Min({q \in (p + 1)..Len(lines) : lines[q].t = "boundary"} \cup {Len(lines) + 1})
NextRecordLine(lines, p) ==
    Min({q \in (p + 1)..Len(lines) : IsRecordLine(lines[q])} \cup {Len(lines) + 1})

\* The statistics of the numstat lines strictly between positions p and q.
FilesBetween(lines, p, q) ==
    Cardinality({k \in (p + 1)..(q - 1) : IsStatLine(lines[k])})
RECURSIVE AdditionsBetween(_, _, _)
AdditionsBetween(lines, p, q) ==
    IF p + 1 >= q THEN 0
    ELSE (IF IsStatLine(lines[p + 1]) /\ StatConverts(lines[p + 1])
          THEN StatValue(lines[p + 1].add) ELSE 0)
         + AdditionsBetween(lines, p + 1, q)
RECURSIVE DeletionsBetween(_, _, _)
DeletionsBetween(lines, p, q) ==
    IF p + 1 >= q THEN 0
    ELSE (IF IsStatLine(lines[p + 1]) /\ StatConverts(lines[p + 1])
          THEN StatValue(lines[p + 1].del) ELSE 0)
         + DeletionsBetween(lines, p + 1, q)

\* The positions of the record lines, and of those that are the first with
\* their hash, in text order.
RecordLines(lines) == {k \in 1..Len(lines) : IsRecordLine(lines[k])}
FirstOccurrences(lines) ==
    {k \in RecordLines(lines) :
        \A j \in RecordLines(lines) : j < k => lines[j].hash # lines[k].hash}
RECURSIVE InOrder(_)
InOrder(S) ==
    IF S = {} THEN <<>> ELSE <<Min(S)>> \o InOrder(S \ {Min(S)})

Returned == parse_pc = "returned" /\ output.ok /\ output.lines # <<>>

\* C6 (as claimed): a boundary line whose field count is not five produces no
\* record and raises nothing, and every returned record counts only the
\* numstat lines between its own boundary line and the next line carrying the
\* boundary prefix, so the lines after a malformed boundary are in no record.
C6_MalformedBoundaryDropsItsBlock ==
    /\ (parse_pc = "raised" =>
            \E k \in 1..line_no : IsRecordLine(output.lines[k]))
    /\ (Returned =>
            /\ Len(parser.commits) <= Cardinality(RecordLines(output.lines))
            /\ \A n \in 1..Len(parser.commits) :
                  \E p \in RecordLines(output.lines) :
                      LET q == NextBoundaryLine(output.lines, p)
                      IN /\ output.lines[p].hash = parser.commits[n].hash
                         /\ parser.commits[n].files = FilesBetween(output.lines, p, q)
                         /\ parser.commits[n].additions = AdditionsBetween(output.lines, p, q)
                         /\ parser.commits[n].deletions = DeletionsBetween(output.lines, p, q))

\* C7: the returned sequence holds each hash once, in the order of the hashes'
\* first record lines, and the record of a hash carries the statistics of the
\* block opened by that first line (up to the next line that starts a record);
\* a later occurrence of the hash changes nothing.
C7_FirstOccurrenceKept ==
    Returned =>
        LET firsts == InOrder(FirstOccurrences(output.lines))
        IN /\ Len(parser.commits) = Len(firsts)
           /\ \A m, n \in 1..Len(parser.commits) :
                 m # n => parser.commits[m].hash # parser.commits[n].hash
           /\ \A n \in 1..Len(parser.commits) :
                 LET p == firsts[n]
                     q == NextRecordLine(output.lines, p)
                 IN /\ parser.commits[n].hash = output.lines[p].hash
                    /\ parser.commits[n].files = FilesBetween(output.lines, p, q)
                    /\ parser.commits[n].additions = AdditionsBetween(output.lines, p, q)
                    /\ parser.commits[n].deletions = DeletionsBetween(output.lines, p, q)

\* A hash occurs twice, its two blocks differ, and the parser has returned.
C7_Witness ==
    /\ Returned
    /\ \E p, r \in RecordLines(output.lines) :
          /\ p < r
          /\ output.lines[p].hash = output.lines[r].hash
          /\ FilesBetween(output.lines, p, NextRecordLine(output.lines, p)) = 1
          /\ AdditionsBetween(output.lines, p, NextRecordLine(output.lines, p)) = 3
          /\ AdditionsBetween(output.lines, r, NextRecordLine(output.lines, r)) = 5
    /\ Len(parser.commits) = 1

\* A well-formed text: record lines with pairwise distinct hashes, numstat
\* triples whose fields are numbers or '-', blank lines, nothing before the
\* first record line, and the same number M of numstat lines in every block.
WellFormed(lines, M) ==
    /\ \A k \in 1..Len(lines) :
          \/ IsRecordLine(lines[k]) /\ IsDecimal(lines[k].timestamp)
          \/ IsStatLine(lines[k]) /\ StatConverts(lines[k])
          \/ lines[k].t = "other"
    /\ \A j, k \in RecordLines(lines) : j # k => lines[j].hash # lines[k].hash
    /\ \A k \in 1..Len(lines) :
          IsStatLine(lines[k]) => \E p \in RecordLines(lines) : p < k
    /\ \A p \in RecordLines(lines) :
          FilesBetween(lines, p, NextRecordLine(lines, p)) = M

\* C8: a well-formed text of N record lines, each followed by M numstat lines,
\* gives N records in text order, each with files = M and the sums of its own
\* numstat lines ('-' counted as 0), the last block included when the text
\* ends with its last numstat line.
C8_WellFormedParse ==
    \A M \in 0..MaxLines :
        (Returned /\ WellFormed(output.lines, M)) =>
            LET recs == InOrder(RecordLines(output.lines))
            IN /\ Len(parser.commits) = Len(recs)
               /\ \A n \in 1..Len(recs) :
                     LET p == recs[n]
                         q == NextRecordLine(output.lines, p)
                     IN /\ parser.commits[n].hash = output.lines[p].hash
                        /\ parser.commits[n].files = M
                        /\ parser.commits[n].additions = AdditionsBetween(output.lines, p, q)
                        /\ parser.commits[n].deletions = DeletionsBetween(output.lines, p, q)

\* Two commits of one numstat line each, the text ending with the second
\* commit's numstat line, one of the lines a binary file.
C8_Witness ==
    /\ Returned
    /\ WellFormed(output.lines, 1)
    /\ Cardinality(RecordLines(output.lines)) = 2
    /\ IsStatLine(output.lines[Len(output.lines)])
    /\ \E k \in 1..Len(output.lines) : output.lines[k].add = "-"
    /\ Len(parser.commits) = 2

(***************************************************************************)
(* analyze_commits_batch: the call made, and what the claims say of it.    *)
(***************************************************************************)
BatchDone == batch_ret # <<>>
BatchEnv == batch_ret[1].env
BatchRet == batch_ret[1].ret

\* The capability was invoked for a non-empty batch and answered with a text
\* the schema accepts.
ValidResponse ==
    /\ BatchDone
    /\ batch_commits # <<>>
    /\ BatchEnv.client_ok
    /\ BatchEnv.outcome.kind = "valid"

\* The invocation raised, or its text failed validation.
InvocationFailed ==
    /\ BatchDone
    /\ batch_commits # <<>>
    /\ BatchEnv.client_ok
    /\ BatchEnv.outcome.kind \in {"raise", "invalid"}

\* One of the four except clauses produced the result.
FallbackTaken ==
    /\ BatchDone
    /\ batch_commits # <<>>
    /\ BatchEnv.client_ok
    /\ RaisedInTry(BatchEnv.outcome) # <<>>

\* C1 (as claimed): for a non-empty batch and any response the schema accepts,
\* the returned total_hours is between 0 and 10 hours and a multiple of 0.5.
C1_NormalizedTotalInBounds ==
    ValidResponse =>
        /\ BatchRet.result # <<>>
        /\ 0 <= BatchRet.result[1].total_hours
        /\ BatchRet.result[1].total_hours <= 1000
        /\ BatchRet.result[1].total_hours % 50 = 0

\* C2 (as claimed): whenever the invocation or the parsing of its response
\* fails for a non-empty batch, the result's error field is a non-empty string.
C2_FailureHasNonEmptyError ==
    InvocationFailed =>
        /\ BatchRet.result # <<>>
        /\ BatchRet.result[1].error # <<>>
        /\ BatchRet.result[1].error[1] # ""

\* C5 (as claimed): analyze_commits_batch never lets an exception out; every
\* call returns a dict with total_hours, summary and major_tasks.
C5_BatchNeverRaises ==
    BatchDone =>
        /\ ~BatchRet.raised
        /\ BatchRet.result # <<>>
        /\ {"total_hours", "summary", "major_tasks"} \subseteq DOMAIN BatchRet.result[1]

\* The changed lines of a batch and the fallback formula, written from the
\* formula's statement: clamp(0.5 + L / 100, 40), then divided by 4, rounded
\* to the half hour and capped at 10.
ChangedLines(commits) ==
    LET sum[k \in 0..Len(commits)] ==
            IF k = 0 THEN 0
            ELSE sum[k - 1] + commits[k].additions + commits[k].deletions
    IN sum[Len(commits)]
FallbackFormula(L) ==
    Min2(round_to_half_hour(Min2(FALLBACK_BASE_HOURS + L, FALLBACK_MAX_HOURS),
                            EstimateDivisor),
         DailyCap)
FailureKinds ==
    {[type |-> t, name |-> t, msg |-> "failed"] :
        t \in {"JSONDecodeError", "ValidationError", "GoogleAPIError", "Exception"}}

\* C9: on every failure branch the returned total_hours is the fallback
\* formula of the batch's changed lines under the success path's
\* normalization, and the four branches agree on it.
C9_FallbackValue ==
    /\ FallbackTaken =>
          BatchRet.result[1].total_hours = FallbackFormula(ChangedLines(batch_commits))
    /\ (BatchDone /\ batch_commits # <<>>) =>
          \A e \in FailureKinds :
              OnRaised(batch_commits, e).total_hours
                  = FallbackFormula(ChangedLines(batch_commits))

\* An upstream API error on a batch of 8000 changed lines, beyond the 40 hour
\* clamp: the fallback is 10 hours.
C9_Witness ==
    /\ FallbackTaken
    /\ RaisedInTry(BatchEnv.outcome)[1].type = "GoogleAPIError"
    /\ ChangedLines(batch_commits) = 8000
    /\ BatchRet.result[1].total_hours = 1000

(***************************************************************************)
(* The day run.                                                            *)
(***************************************************************************)
\* A result of a failed validation or of the estimation fallback: those are
\* the results built with an 'error' key.
FromFailure(r) == r.error # <<>>
FromSuccess(r) == ~FromFailure(r)

RECURSIVE SumSuccessHours(_)
SumSuccessHours(rs) ==
    IF rs = <<>> THEN 0
    ELSE (IF FromSuccess(rs[1]) THEN rs[1].total_hours ELSE 0)
         + SumSuccessHours(Tail(rs))

\* C3 (as claimed): after a day run the grand total is the sum of total_hours
\* over the results of successful analyses; every result of a failed
\* validation or of the estimation fallback is left out.
C3_TotalExcludesFailures ==
    main_pc = "done" => total_hours_all = SumSuccessHours(results)

\* C4 (as claimed): when main has ended, every project whose analysis returned
\* a result has been printed and the total covers it, whatever happened to
\* the other projects.
C4_FailureDoesNotHideOthers ==
    main_pc \in {"done", "failed"} =>
        \A i \in Projects :
            task_pc[i] = "done" =>
                \E k \in 1..Len(printed) : printed[k] = ProjectName(i)

\* C10: whatever the order in which the tasks completed, results has one entry
\* per project in the order of the project list, results[i] being what
\* project i's task returned; the summaries are printed in that order and each
\* time entry is posted with the task id of the project its result belongs to.
C10_ResultsInProjectOrder ==
    main_pc \in {"report", "done"} =>
        /\ Len(results) = Len(projects)
        /\ \A i \in 1..Len(results) :
              /\ results[i] = task_result[i][1]
              /\ results[i].name = projects[i].name
        /\ printed = [k \in 1..loop_i |-> projects[k].name]
        /\ \A k \in 1..Len(timecamp_entries) :
              \E i \in 1..loop_i :
                  /\ timecamp_entries[k].task_id = projects[i].timecamp_task_id
                  /\ timecamp_entries[k].duration
                        = RoundHalfEven(results[i].total_hours * 3600, 100)
                  /\ timecamp_entries[k].note = "Timekeep: " \o results[i].summary.text

\* The last project's task completed first, the results differ, and the day
\* run has reported and submitted them.
C10_Witness ==
    /\ main_pc = "done"
    /\ completed[1] = NProjects
    /\ completed[Len(completed)] = 1
    /\ results[1].total_hours = 200
    /\ results[NProjects].total_hours = 100
    /\ Len(timecamp_entries) >= 1
    /\ timecamp_entries[1].task_id = 101

\* C11: within one project analysis the capability is invoked once for a
\* non-empty commit list (never once per commit, never again after a failure)
\* and not at all for an empty one, whose result has total_hours 0, no major
\* tasks and no error.  An analysis that stops before its git log query, or is
\* ended by an exception before line 365, invokes nothing.
C11_OneInvocationPerAnalysis ==
    \A i \in Projects :
        /\ capability_calls[i] <= 1
        /\ task_output[i] = <<>> => capability_calls[i] = 0
        /\ (task_output[i] # <<>> /\ task_pc[i] \in {"awaiting", "done"}) =>
              IF task_commits[i] # <<>>
              THEN capability_calls[i] = 1
              ELSE /\ capability_calls[i] = 0
                   /\ task_pc[i] = "done"
                   /\ task_result[i][1].total_hours = 0
                   /\ task_result[i][1].major_tasks = <<>>
                   /\ task_result[i][1].error = <<>>

\* One project's estimation of two commits failed and fell back after its
\* single invocation, another had an empty commit list and invoked nothing.
C11_Witness ==
    /\ main_pc = "done"
    /\ \E i, j \in Projects :
          /\ task_output[i] # <<>> /\ Len(task_commits[i]) = 2
          /\ task_result[i][1].error # <<>>
          /\ capability_calls[i] = 1
          /\ task_output[j] # <<>> /\ task_commits[j] = <<>> /\ task_pc[j] = "done"
          /\ task_result[j][1].total_hours = 0
          /\ capability_calls[j] = 0

C13_EntriesOncePositiveCapped ==
    /\ \A k, l \in 1..Len(timecamp_entries) :
          k # l => timecamp_entries[k].task_id # timecamp_entries[l].task_id
    /\ \A k \in 1..Len(timecamp_entries) :
          /\ \E i \in 1..loop_i :
                /\ projects[i].timecamp_enabled
                /\ projects[i].timecamp_task_id # 0
                /\ projects[i].timecamp_task_id = timecamp_entries[k].task_id
                /\ FromSuccess(results[i])
          /\ timecamp_entries[k].duration >= 1
          /\ timecamp_entries[k].duration <= 36000

\* The result analyze_project gives project i on a day whose git log query
\* succeeds and prints nothing.
DayWithoutCommits(i) ==
    analyze_project_start(projects[i], FALSE,
                          [path |-> "repo", detected_email |-> <<>>, answer |-> "y",
                           git |-> [ok |-> TRUE, lines |-> <<>>],
                           client_ok |-> TRUE]).result

\* C14: when the git log query of a valid repository fails (run_git_command
\* returns None) the analysis returns what it returns for a day without
\* commits: commits 0, total_hours 0, no error, no capability invocation; and
\* the reporting loop treats the project as successful.
C14_GitFailureIsNoCommits ==
    \A i \in Projects :
        (task_output[i] # <<>> /\ ~task_output[i][1].ok) =>
            /\ task_pc[i] = "done"
            /\ capability_calls[i] = 0
            /\ task_result[i] = DayWithoutCommits(i)
            /\ task_result[i][1].commits = 0
            /\ task_result[i][1].total_hours = 0
            /\ task_result[i][1].error = <<>>
            /\ (main_pc \in {"report", "done"} /\ loop_i >= i) =>
                  /\ printed[i] = projects[i].name
                  /\ ~Truthy(results[i].error)
                  /\ FromSuccess(results[i])

\* A project's git log query failed, another project logged hours, and the
\* day run has reported both.
C14_Witness ==
    /\ main_pc = "done"
    /\ \E i, j \in Projects :
          /\ task_output[i] # <<>> /\ ~task_output[i][1].ok
          /\ task_result[j][1].total_hours = 200
          /\ total_hours_all = 200

====
